---- MODULE Spec2Model ----
(***************************************************************************)
(* Model of the demo-diagnosis backend: the three deployment variants of   *)
(* routes/demo (inactive-flag stub, image based, data based with MongoDB   *)
(* persistence), their shared in-memory rate limiter and its periodic      *)
(* sweep, and the POST /diagnose handler up to and including the           *)
(* fire-and-forget DemoData.create.                                        *)
(*                                                                         *)
(* Node runs one callback at a time, so every action below is one          *)
(* run-to-completion stretch of JavaScript: the handler from its entry to  *)
(* the await of generateContent, the continuation after that await, the    *)
(* then/catch of DemoData.create, and the setInterval callback.            *)
(***************************************************************************)
EXTENDS Integers, Sequences, FiniteSets, TLC

VARIABLES
    variant,            \* which routes/demo file is deployed
    DEMO_ACTIVE,        \* process.env.DEMO_ACTIVE === 'true' (stub variant)
    genAI,              \* TRUE iff the GoogleGenerativeAI client was built
    RATE_LIMIT_MAX,     \* parseInt(env.RATE_LIMIT_MAX) || 10
    RATE_LIMIT_WINDOW,  \* (parseInt(env.RATE_LIMIT_WINDOW_MINUTES) || 60) * 60 * 1000
    now,                \* Date.now(), milliseconds since the process started
    rateLimitMap,       \* the Map ip -> {windowStart, count}, as its set of entries
    reqs,               \* one record per connection: the handler invocation it carries
    calls               \* per client, the checkRateLimit calls made so far: <<[at, ok]>>

vars == <<variant, DEMO_ACTIVE, genAI, RATE_LIMIT_MAX, RATE_LIMIT_WINDOW,
          now, rateLimitMap, reqs, calls>>

config == <<variant, DEMO_ACTIVE, genAI, RATE_LIMIT_MAX, RATE_LIMIT_WINDOW>>

----------------------------------------------------------------------------
(* Bounds of the exploration *)

\* requests explored per run of the whole service (Spec)
MaxCalls == 2
\* requests explored per run of the rate limiter alone (SpecLimiter)
MaxLimiterCalls == 4
\* longest model reply, in tokens, of the specification of the extraction
MaxReplyLen == 5
\* the clock is explored up to Horizon window lengths plus Horizon milliseconds
Horizon == 1

Clients == {"1.2.3.4", "5.6.7.8"}
\* connections that can carry a request at the same time
Conns == {"conn1", "conn2"}

----------------------------------------------------------------------------
(* Configuration read from the environment when the module is loaded *)

\* parseInt(process.env.X) for the values explored; 0 stands for every value
\* that is falsy after parseInt (unset, not a number, "0")
EnvRateLimitMax == {0, 1, 2, 3}
EnvRateLimitWindowMinutes == {0}
EnvGeminiKey == {"unset", "placeholder", "key"}

DefaultRateLimitMax == 10
DefaultWindowMinutes == 60

\* parseInt(process.env.RATE_LIMIT_MAX) || 10
RateLimitMaxOf(env) == IF env = 0 THEN DefaultRateLimitMax ELSE env

\* (parseInt(process.env.RATE_LIMIT_WINDOW_MINUTES) || 60) * 60 * 1000
RateLimitWindowOf(env) ==
    (IF env = 0 THEN DefaultWindowMinutes ELSE env) * 60 * 1000

\* GEMINI_API_KEY && GEMINI_API_KEY !== 'YOUR_GEMINI_API_KEY_HERE'
GenAIOf(key) == key /= "unset" /\ key /= "placeholder"

Variants == {"inactive", "image", "data"}

----------------------------------------------------------------------------
(* The JavaScript Map holding the rate-limit records *)

NoRecord == [ip |-> "none", windowStart |-> -1, count |-> 0]

MapHas(m, ip) == \E e \in m : e.ip = ip

\* Map.prototype.get: undefined (NoRecord) when the key is absent
MapGet(m, ip) == IF MapHas(m, ip) THEN CHOOSE e \in m : e.ip = ip ELSE NoRecord

\* Map.prototype.set: replaces the entry of the key
MapSet(m, ip, windowStart, count) ==
    {e \in m : e.ip /= ip} \cup
        {[ip |-> ip, windowStart |-> windowStart, count |-> count]}

\* Map.prototype.delete
MapDelete(m, ip) == {e \in m : e.ip /= ip}

----------------------------------------------------------------------------
(* Rate limiter *)

\* checkRateLimit with the limit tested by > : one request too many
checkRateLimit_OffByOne(ip) ==
    LET record == MapGet(rateLimitMap, ip) IN
    IF record = NoRecord \/ now - record.windowStart > RATE_LIMIT_WINDOW
    THEN [ok |-> TRUE, map |-> MapSet(rateLimitMap, ip, now, 1)]
    ELSE IF record.count > RATE_LIMIT_MAX
    THEN [ok |-> FALSE, map |-> rateLimitMap]
    ELSE [ok |-> TRUE,
          map |-> MapSet(rateLimitMap, ip, record.windowStart, record.count + 1)]

\* checkRateLimit that never lets a window expire
checkRateLimit_NoExpiry(ip) ==
    LET record == MapGet(rateLimitMap, ip) IN
    IF record = NoRecord
    THEN [ok |-> TRUE, map |-> MapSet(rateLimitMap, ip, now, 1)]
    ELSE IF record.count >= RATE_LIMIT_MAX
    THEN [ok |-> FALSE, map |-> rateLimitMap]
    ELSE [ok |-> TRUE,
          map |-> MapSet(rateLimitMap, ip, record.windowStart, record.count + 1)]

\* checkRateLimit with the expiry tested by >= : the window ends a
\* millisecond early
checkRateLimit_ExpireAtBoundary(ip) ==
    LET record == MapGet(rateLimitMap, ip) IN
    IF record = NoRecord \/ now - record.windowStart >= RATE_LIMIT_WINDOW
    THEN [ok |-> TRUE, map |-> MapSet(rateLimitMap, ip, now, 1)]
    ELSE IF record.count >= RATE_LIMIT_MAX
    THEN [ok |-> FALSE, map |-> rateLimitMap]
    ELSE [ok |-> TRUE,
          map |-> MapSet(rateLimitMap, ip, record.windowStart, record.count + 1)]

\* checkRateLimit that moves windowStart at a rollover but keeps counting
checkRateLimit_CarryCount(ip) ==
    LET record == MapGet(rateLimitMap, ip) IN
    IF record = NoRecord
    THEN [ok |-> TRUE, map |-> MapSet(rateLimitMap, ip, now, 1)]
    ELSE IF now - record.windowStart > RATE_LIMIT_WINDOW
    THEN [ok |-> TRUE, map |-> MapSet(rateLimitMap, ip, now, record.count + 1)]
    ELSE IF record.count >= RATE_LIMIT_MAX
    THEN [ok |-> FALSE, map |-> rateLimitMap]
    ELSE [ok |-> TRUE,
          map |-> MapSet(rateLimitMap, ip, record.windowStart, record.count + 1)]

\* a limiter that holds the calls of all clients against each of them
checkRateLimit_SharedQuota(ip) ==
    LET record == MapGet(rateLimitMap, ip)
        others == {e \in rateLimitMap : e.ip /= ip}
        used == IF others = {} THEN 0 ELSE (CHOOSE e \in others : TRUE).count
    IN
    IF record = NoRecord \/ now - record.windowStart > RATE_LIMIT_WINDOW
    THEN [ok |-> TRUE, map |-> MapSet(rateLimitMap, ip, now, 1)]
    ELSE IF record.count + used >= RATE_LIMIT_MAX
    THEN [ok |-> FALSE, map |-> rateLimitMap]
    ELSE [ok |-> TRUE,
          map |-> MapSet(rateLimitMap, ip, record.windowStart, record.count + 1)]

\* a limiter whose rejections restart the window
checkRateLimit_RestartOnReject(ip) ==
    LET record == MapGet(rateLimitMap, ip) IN
    IF record = NoRecord \/ now - record.windowStart > RATE_LIMIT_WINDOW
    THEN [ok |-> TRUE, map |-> MapSet(rateLimitMap, ip, now, 1)]
    ELSE IF record.count >= RATE_LIMIT_MAX
    THEN [ok |-> FALSE, map |-> MapSet(rateLimitMap, ip, now, record.count)]
    ELSE [ok |-> TRUE,
          map |-> MapSet(rateLimitMap, ip, record.windowStart, record.count + 1)]

\* a limiter that counts the calls it rejects
checkRateLimit_CountRejected(ip) ==
    LET record == MapGet(rateLimitMap, ip) IN
    IF record = NoRecord \/ now - record.windowStart > RATE_LIMIT_WINDOW
    THEN [ok |-> TRUE, map |-> MapSet(rateLimitMap, ip, now, 1)]
    ELSE [ok |-> record.count < RATE_LIMIT_MAX,
          map |-> MapSet(rateLimitMap, ip, record.windowStart, record.count + 1)]

\* checkRateLimit(ip): the value returned and the map it leaves behind
checkRateLimit(ip) ==
    LET record == MapGet(rateLimitMap, ip) IN
    IF record = NoRecord \/ now - record.windowStart > RATE_LIMIT_WINDOW
    THEN [ok |-> TRUE, map |-> MapSet(rateLimitMap, ip, now, 1)]
    ELSE IF record.count >= RATE_LIMIT_MAX
    THEN [ok |-> FALSE, map |-> rateLimitMap]
    ELSE [ok |-> TRUE,
          map |-> MapSet(rateLimitMap, ip, record.windowStart, record.count + 1)]

\* the record of a call in the history variable
Logged(ip, ok) == [calls EXCEPT ![ip] = Append(@, [at |-> now, ok |-> ok])]

RECURSIVE SumLen(_, _)
SumLen(f, S) ==
    IF S = {} THEN 0
    ELSE LET c == CHOOSE x \in S : TRUE IN Len(f[c]) + SumLen(f, S \ {c})

TotalCalls == SumLen(calls, Clients)

\* a sweep that clears the map
RECURSIVE SweepFrom_DropAll(_, _)
SweepFrom_DropAll(m, todo) ==
    IF todo = {} THEN m
    ELSE LET e == CHOOSE x \in todo : TRUE IN
         SweepFrom_DropAll(MapDelete(m, e.ip), todo \ {e})

\* a sweep that takes a record away at the very end of its window
RECURSIVE SweepFrom_AtBoundary(_, _)
SweepFrom_AtBoundary(m, todo) ==
    IF todo = {} THEN m
    ELSE LET e == CHOOSE x \in todo : TRUE IN
         SweepFrom_AtBoundary(IF now - e.windowStart >= RATE_LIMIT_WINDOW
                              THEN MapDelete(m, e.ip) ELSE m,
                              todo \ {e})

\* the setInterval callback: rateLimitMap.delete(ip) for every record with
\* now - record.windowStart > RATE_LIMIT_WINDOW
RECURSIVE SweepFrom(_, _)
SweepFrom(m, todo) ==
    IF todo = {} THEN m
    ELSE LET e == CHOOSE x \in todo : TRUE IN
         SweepFrom(IF now - e.windowStart > RATE_LIMIT_WINDOW
                   THEN MapDelete(m, e.ip) ELSE m,
                   todo \ {e})

SweptMap == SweepFrom(rateLimitMap, rateLimitMap)

----------------------------------------------------------------------------
(* Text of a model reply, as a sequence of lexical tokens *)

\* three backquotes
Fence == "fence"
Members == {"pc", "fs", "bt", "bf", "xx"}
Tokens == {Fence, "json", "ws", "{", "}", ",", "null", "1", "txt"} \cup Members

\* "pc" is the text "personalColor":"Spring Light", and so on; "bf" is
\* "bodyType":"", a falsy value
MemberKey(tok) ==
    CASE tok = "pc" -> "personalColor"
      [] tok = "fs" -> "faceShape"
      [] tok = "bt" -> "bodyType"
      [] tok = "bf" -> "bodyType"
      [] OTHER      -> "extra"

MemberVal(tok) ==
    CASE tok = "pc" -> "Spring Light"
      [] tok = "fs" -> "Oval"
      [] tok = "bt" -> "Wave"
      [] tok = "bf" -> ""
      [] OTHER      -> "1"

RECURSIVE SkipWs(_, _)
SkipWs(s, i) == IF i <= Len(s) /\ s[i] = "ws" THEN SkipWs(s, i + 1) ELSE i

RECURSIVE SkipWsBack(_, _)
SkipWsBack(s, i) == IF i >= 1 /\ s[i] = "ws" THEN SkipWsBack(s, i - 1) ELSE i

\* smallest j >= i with s[j] = tok, or 0
RECURSIVE IndexFrom(_, _, _)
IndexFrom(s, tok, i) ==
    IF i > Len(s) THEN 0
    ELSE IF s[i] = tok THEN i ELSE IndexFrom(s, tok, i + 1)

\* largest j <= i with s[j] = tok, or 0
RECURSIVE LastIndexFrom(_, _, _)
LastIndexFrom(s, tok, i) ==
    IF i < 1 THEN 0
    ELSE IF s[i] = tok THEN i ELSE LastIndexFrom(s, tok, i - 1)

----------------------------------------------------------------------------
(* JSON.parse *)

\* an Error's message; a position makes two messages differ as in V8
Err(prefix, text, tok, pos) ==
    [prefix |-> prefix, text |-> text, tok |-> tok, pos |-> pos]

NoError == Err("", "", "", 0)

ParseOk(kind, members) ==
    [ok |-> TRUE, kind |-> kind, members |-> members, message |-> NoError]

\* SyntaxError: "Unexpected token X in JSON at position N"
UnexpectedToken(s, i) ==
    [ok |-> FALSE, kind |-> "error", members |-> {},
     message |-> Err("", "Unexpected token", s[i], i)]

\* SyntaxError: "Unexpected end of JSON input"
UnexpectedEnd ==
    [ok |-> FALSE, kind |-> "error", members |-> {},
     message |-> Err("", "Unexpected end of JSON input", "", 0)]

\* nothing but white space may follow the value that ends before position i
ParseRest(s, i, value) ==
    LET j == SkipWs(s, i) IN
    IF j > Len(s) THEN value ELSE UnexpectedToken(s, j)

\* the members of an object, s[i] being the token after "{" or after ","
RECURSIVE ParseMembers(_, _, _)
ParseMembers(s, i, seen) ==
    LET k == SkipWs(s, i) IN
    IF k > Len(s) THEN UnexpectedEnd
    ELSE IF s[k] \notin Members THEN UnexpectedToken(s, k)
    ELSE LET n == SkipWs(s, k + 1) IN
         IF n > Len(s) THEN UnexpectedEnd
         ELSE IF s[n] = "}"
              THEN ParseRest(s, n + 1, ParseOk("object", seen \cup {s[k]}))
         ELSE IF s[n] = ","
              THEN ParseMembers(s, n + 1, seen \cup {s[k]})
         ELSE UnexpectedToken(s, n)

JSONParse(s) ==
    LET i == SkipWs(s, 1) IN
    IF i > Len(s) THEN UnexpectedEnd
    ELSE IF s[i] = "null" THEN ParseRest(s, i + 1, ParseOk("null", {}))
    ELSE IF s[i] = "1" THEN ParseRest(s, i + 1, ParseOk("number", {}))
    ELSE IF s[i] = "{"
         THEN LET k == SkipWs(s, i + 1) IN
              IF k > Len(s) THEN UnexpectedEnd
              ELSE IF s[k] = "}"
                   THEN ParseRest(s, k + 1, ParseOk("object", {}))
              ELSE ParseMembers(s, k, {})
    ELSE UnexpectedToken(s, i)

----------------------------------------------------------------------------
(* Recovery of JSON from the raw reply: the three String.prototype.match *)

Trim(s) ==
    LET a == SkipWs(s, 1)
        b == SkipWsBack(s, Len(s))
    IN  IF a > b THEN <<>> ELSE SubSeq(s, a, b)

\* a failed match is null; a group that did not take part is undefined, which
\* like the empty string is falsy: both are <<>> here
NoMatch == [found |-> FALSE, group1 |-> <<>>, whole |-> <<>>]

\* smallest i >= from with s[i] the fence and s[i+1] the word json, or 0
RECURSIVE JsonFenceFrom(_, _)
JsonFenceFrom(s, from) ==
    IF from + 1 > Len(s) THEN 0
    ELSE IF s[from] = Fence /\ s[from + 1] = "json" THEN from
    ELSE JsonFenceFrom(s, from + 1)

\* rawResponse.match(/```json\s*([\s\S]*?)\s*```/)
MatchJsonFence(s) ==
    LET i == JsonFenceFrom(s, 1)
        j == IF i = 0 THEN 0 ELSE IndexFrom(s, Fence, i + 2)
    IN  IF j = 0 THEN NoMatch
        ELSE [found |-> TRUE, group1 |-> Trim(SubSeq(s, i + 2, j - 1)),
              whole |-> SubSeq(s, i, j)]

\* rawResponse.match(/```\s*([\s\S]*?)\s*```/)
MatchFence(s) ==
    LET i == IndexFrom(s, Fence, 1)
        j == IF i = 0 THEN 0 ELSE IndexFrom(s, Fence, i + 1)
    IN  IF j = 0 THEN NoMatch
        ELSE [found |-> TRUE, group1 |-> Trim(SubSeq(s, i + 1, j - 1)),
              whole |-> SubSeq(s, i, j)]

\* rawResponse.match(/\{[\s\S]*\}/): first "{" to last "}", no group
MatchBraces(s) ==
    LET i == IndexFrom(s, "{", 1)
        j == LastIndexFrom(s, "}", Len(s))
    IN  IF i = 0 \/ j < i THEN NoMatch
        ELSE [found |-> TRUE, group1 |-> <<>>, whole |-> SubSeq(s, i, j)]

\* the bare fence tried before the json fence
JsonMatch_FenceFirst(s) ==
    IF MatchFence(s).found THEN MatchFence(s)
    ELSE IF MatchJsonFence(s).found THEN MatchJsonFence(s)
    ELSE MatchBraces(s)

\* the three matches in the order of the code
JsonMatch(s) ==
    IF MatchJsonFence(s).found THEN MatchJsonFence(s)
    ELSE IF MatchFence(s).found THEN MatchFence(s)
    ELSE MatchBraces(s)

\* new Error(`JSON parse failed: ${parseError.message}`)
ParseFailed(parseError) ==
    [ok |-> FALSE, kind |-> "error", members |-> {},
     message |-> [parseError.message EXCEPT !.prefix = "JSON parse failed: "]]

\* a parse block that reports the error of the second parse
extract_CandidateError(rawResponse) ==
    LET first == JSONParse(rawResponse) IN
    IF first.ok THEN first
    ELSE LET jsonMatch == JsonMatch(rawResponse) IN
         IF jsonMatch.found
         THEN LET jsonString == IF jsonMatch.group1 /= <<>>
                                THEN jsonMatch.group1 ELSE jsonMatch.whole
              IN  IF JSONParse(jsonString).ok THEN JSONParse(jsonString)
                  ELSE ParseFailed(JSONParse(jsonString))
         ELSE ParseFailed(first)

\* the "Parse JSON" block of the handler
extract(rawResponse) ==
    LET first == JSONParse(rawResponse) IN
    IF first.ok THEN first
    ELSE LET jsonMatch == JsonMatch(rawResponse) IN
         IF jsonMatch.found
         THEN LET jsonString == IF jsonMatch.group1 /= <<>>
                                THEN jsonMatch.group1 ELSE jsonMatch.whole
              IN  IF JSONParse(jsonString).ok THEN JSONParse(jsonString)
                  ELSE ParseFailed(first)
         ELSE ParseFailed(first)

----------------------------------------------------------------------------
(* Requests, replies and responses *)

\* faceAnalysis.contrast: absent, or an object whose entries are there
\* (!= null) or not
NoContrast ==
    [present |-> FALSE, skinHair |-> FALSE, skinEye |-> FALSE,
     skinLip |-> FALSE, skinNeck |-> FALSE]
ContrastInputs ==
    {NoContrast} \cup
    [present : {TRUE}, skinHair : BOOLEAN, skinEye : BOOLEAN,
     skinLip : BOOLEAN, skinNeck : BOOLEAN]

\* the measurements the prompt is built from without a test
Required == {"skinColor", "hairColor", "backgroundColor", "faceProportions"}

\* a faceAnalysis with none of the optional measurements. error: the error
\* property is absent, falsy ('' or false) or truthy; measured: which of
\* the required measurements are there
Face(present, error, measured) ==
    [present |-> present, error |-> error, measured |-> measured,
     eyeColor |-> FALSE, eyebrowColor |-> FALSE, lipColor |-> FALSE,
     neckColor |-> FALSE, contrast |-> NoContrast]

\* req.body of the image variant (image truthy or not) and of the data variant
NoFace == Face(FALSE, "absent", {})

FaceInputs ==
    { NoFace,
      Face(TRUE, "truthy", Required),
      Face(TRUE, "falsy", Required),
      Face(TRUE, "absent", {}),
      Face(TRUE, "absent", Required) }

\* bodyAnalysis: absent, without bodyProportions, with bodyProportions that
\* lack shoulderHipRatio, or complete
BodyInputs == {"absent", "noProportions", "noRatio", "complete"}

Bodies ==
    IF variant = "image"
    THEN [image : BOOLEAN, faceAnalysis : {NoFace}, bodyAnalysis : {"absent"},
          age : {FALSE}, gender : {FALSE}]
    ELSE [image : {FALSE}, faceAnalysis : FaceInputs, bodyAnalysis : {"absent"},
          age : {FALSE}, gender : {FALSE}]

\* the bodies of the data variant that pass the validation and carry any
\* choice of the required and of the optional measurements
MeasuredBodies ==
    [image : {FALSE},
     faceAnalysis :
        [present : {TRUE}, error : {"absent", "falsy"},
         measured : SUBSET Required,
         eyeColor : BOOLEAN, eyebrowColor : BOOLEAN, lipColor : BOOLEAN,
         neckColor : BOOLEAN, contrast : ContrastInputs],
     bodyAnalysis : BodyInputs, age : BOOLEAN, gender : BOOLEAN]

\* the replies the model is let to give: pure JSON, fenced JSON, JSON in
\* prose, prose alone, and the JSON values null and 1
Replies ==
    { <<"{", "pc", ",", "bt", ",", "xx", "}">>,
      <<Fence, "json", "ws", "{", "pc", "}", "ws", Fence>>,
      <<"txt", "ws", "{", "fs", ",", "bf", "}", "ws", "txt">>,
      <<"txt">>,
      <<"null">>,
      <<"1">> }

\* every text of at most n tokens over the tokens the extraction looks at:
\* the fence, the word json, white space, braces, the JSON value 1 and a
\* word that is no JSON
ReplyTokens == {Fence, "json", "ws", "{", "}", "1", "txt"}
RepliesUpTo(n) == UNION {[1..k -> ReplyTokens] : k \in 0..n}

\* how the awaited model.generateContent(...) / result.response.text() ends
ModelOutcomes ==
    [kind : {"throw"}, message : {"fetch failed"}, raw : {<<>>}]
    \cup [kind : {"text"}, message : {""}, raw : Replies]

Resp(status, success, message, diagnosis) ==
    [status |-> status, success |-> success, message |-> message,
     diagnosis |-> diagnosis]

NoDiagnosis == <<>>

TooManyRequests ==
    Resp(429, FALSE, "Too many requests. Please try again later.", NoDiagnosis)
NotConfigured ==
    Resp(503, FALSE, "AI service is not configured.", NoDiagnosis)
NotActive ==
    Resp(503, FALSE,
         "Demo diagnosis is not active. This feature is reserved for future use.",
         NoDiagnosis)
InputRequired ==
    Resp(400, FALSE,
         IF variant = "image" THEN "Image data is required."
         ELSE "Face analysis data is required.",
         NoDiagnosis)
DiagnosisFailed ==
    Resp(500, FALSE, "AI diagnosis failed. Please try again.", NoDiagnosis)

\* the fields copied into the response
AllowList ==
    {"personalColor", "seasonGroup", "personalColorDetail",
     "personalColorCharacteristics", "faceShape", "faceShapeDetail",
     "bestColors", "avoidColors", "stylingTip"}
    \cup (IF variant = "data" THEN {"bodyType", "bodyTypeDetail"} ELSE {})

\* diagnosis[key] of a parsed value that is not null
Prop(diagnosis, key) ==
    IF \E t \in diagnosis.members : MemberKey(t) = key
    THEN MemberVal(CHOOSE t \in diagnosis.members : MemberKey(t) = key)
    ELSE "undefined"

\* undefined, null, "", 0 and false
Falsy == {"undefined", "null", ""}

\* a shaping that hands on whatever the model's object holds
Shaped_PassThrough(diagnosis) ==
    [k \in AllowList \cup {MemberKey(t) : t \in diagnosis.members} |->
        IF k \in {"bodyType", "bodyTypeDetail"} /\ Prop(diagnosis, k) \in Falsy
        THEN "null" ELSE Prop(diagnosis, k)]

\* the diagnosis of the response: diagnosis.<field>, and
\* diagnosis.<field> || null for bodyType and bodyTypeDetail
Shaped(diagnosis) ==
    [k \in AllowList |->
        IF k \in {"bodyType", "bodyTypeDetail"} /\ Prop(diagnosis, k) \in Falsy
        THEN "null" ELSE Prop(diagnosis, k)]

Success(diagnosis) == Resp(200, TRUE, "", Shaped(diagnosis))

----------------------------------------------------------------------------
(* router.post('/diagnose') *)

NoInput ==
    [image |-> FALSE, faceAnalysis |-> NoFace, bodyAnalysis |-> "absent",
     age |-> FALSE, gender |-> FALSE]
NoOutcome == [kind |-> "none", message |-> "", raw |-> <<>>]

\* body: req.body; outcome: how the awaited model call ended; trace: the
\* statements run so far; res: the responses written; err: what console.error
\* was given; prompt: what generateContent was called with; nth: parity of
\* the number of requests the connection has carried, which tells a request
\* from the one before it
Idle == [pc |-> "idle", body |-> NoInput, outcome |-> NoOutcome,
         trace |-> <<>>, res |-> <<>>, err |-> NoError, prompt |-> <<>>,
         nth |-> 0]

\* the req/res pair of the next request on connection c, after the
\* handler's first stretch left it as r
NextRequest(c, r) == [r EXCEPT !.nth = 1 - reqs[c].nth]

\* one more statement of the handler executed
Did(r, what) == [r EXCEPT !.trace = Append(@, what)]

\* res.status(..).json(..): one more response on the wire
Sent(r, response) ==
    [Did(r, "res.json") EXCEPT !.res = Append(@, response)]

\* return res.status(..).json(..)
Returned(r, response) == [Sent(r, response) EXCEPT !.pc = "done"]

\* a catch block that puts error.message into the response
Caught_LeakDetail(r, error) ==
    [Sent(Did(r, "catch"), Resp(500, FALSE, error.text, NoDiagnosis)) EXCEPT
        !.pc = "done", !.err = error]

\* catch (error) { console.error(..); res.status(500).json(..) }
Caught(r, error) ==
    [Sent(Did(r, "catch"), DiagnosisFailed) EXCEPT !.pc = "done", !.err = error]

\* the stub: answers only while DEMO_ACTIVE is false
StubHandler ==
    IF ~ DEMO_ACTIVE
    THEN Returned([Idle EXCEPT !.pc = "run"], NotActive)
    ELSE [Idle EXCEPT !.pc = "done"]

\* a validation that forgets faceAnalysis.error
InputMissing_NoErrorCheck(body) ==
    IF variant = "image" THEN ~ body.image
    ELSE ~ body.faceAnalysis.present

\* !image, and !faceAnalysis || faceAnalysis.error
InputMissing(body) ==
    IF variant = "image" THEN ~ body.image
    ELSE ~ body.faceAnalysis.present \/ body.faceAnalysis.error = "truthy"

\* building the prompt dereferences skinColor, hairColor, backgroundColor
\* and faceProportions without a test
PromptThrows(body) ==
    variant = "data" /\ body.faceAnalysis.measured /= Required

\* one line of the prompt: what it is about, and whether the template
\* literal printed a value or the word undefined
Line(label, defined) ==
    [label |-> label, value |-> IF defined THEN "value" ELSE "undefined"]

\* zero or one line
Opt(cond, line) == IF cond THEN <<line>> ELSE <<>>

\* the lines of the contrast block
ContrastLines(contrast) ==
    IF ~ contrast.present THEN <<>>
    ELSE <<Line("Contrast", TRUE), Line("skinHair", contrast.skinHair)>>
         \o Opt(contrast.skinEye, Line("skinEye", TRUE))
         \o Opt(contrast.skinLip, Line("skinLip", TRUE))
         \o Opt(contrast.skinNeck, Line("skinNeck", TRUE))

\* the body block, or the instruction that stands for it
BodyLines(bodyAnalysis) ==
    IF bodyAnalysis \in {"noRatio", "complete"}
    THEN <<Line("Body Proportions", TRUE),
           Line("shoulderHipRatio", bodyAnalysis = "complete")>>
    ELSE <<Line("Set bodyType and bodyTypeDetail to null", TRUE)>>

\* the prompt handed to generateContent, line by line
buildPrompt(body) ==
    IF variant = "image"
    THEN <<Line("DEMO_DIAGNOSIS_PROMPT", TRUE), Line("Analyze the photo", TRUE),
           Line("inlineData", TRUE)>>
    ELSE LET f == body.faceAnalysis IN
         <<Line("DEMO_DIAGNOSIS_PROMPT", TRUE),
           Line("Client Measurement Data", TRUE),
           Line("skinColor", TRUE), Line("hairColor", TRUE)>>
         \o Opt(f.eyeColor, Line("eyeColor", TRUE))
         \o Opt(f.eyebrowColor, Line("eyebrowColor", TRUE))
         \o Opt(f.lipColor, Line("lipColor", TRUE))
         \o Opt(f.neckColor, Line("neckColor", TRUE))
         \o <<Line("backgroundColor", TRUE), Line("Face Proportions", TRUE),
              Line("foreheadRatio", TRUE), Line("jawRatio", TRUE),
              Line("heightRatio", TRUE)>>
         \o ContrastLines(f.contrast)
         \o BodyLines(body.bodyAnalysis)
         \o Opt(body.age, Line("age", TRUE))
         \o Opt(body.gender, Line("gender", TRUE))
         \o <<Line("getLangInstruction", TRUE), Line("Respond with JSON only", TRUE)>>

\* a prompt build that turns a missing measurement into a 400
Prompted_Reject400(r) ==
    LET r1 == Did(r, "prompt") IN
    IF PromptThrows(r.body)
    THEN Returned(r1, InputRequired)
    ELSE [Did(r1, "generateContent") EXCEPT
             !.pc = "awaitModel", !.prompt = buildPrompt(r.body)]

\* from the prompt to the await of generateContent
Prompted(r) ==
    LET r1 == Did(r, "prompt") IN
    IF PromptThrows(r.body)
    THEN Caught(r1, Err("", "Cannot read properties of undefined", "", 0))
    ELSE [Did(r1, "generateContent") EXCEPT
             !.pc = "awaitModel", !.prompt = buildPrompt(r.body)]

\* the input validated before the service is checked
Admitted_ValidateFirst(r) ==
    LET r1 == Did(r, "validate") IN
    IF InputMissing(r.body) THEN Returned(r1, InputRequired)
    ELSE LET r2 == Did(r1, "genAI") IN
    IF ~ genAI THEN Returned(r2, NotConfigured)
    ELSE Prompted(r2)

\* if (!genAI) return 503; if (input missing) return 400; then the prompt
Admitted(r) ==
    LET r1 == Did(r, "genAI") IN
    IF ~ genAI THEN Returned(r1, NotConfigured)
    ELSE LET r2 == Did(r1, "validate") IN
    IF InputMissing(r.body) THEN Returned(r2, InputRequired)
    ELSE Prompted(r2)

\* the 429 sent without return: the handler carries on
Entered_NoReturn(body, admitted) ==
    LET r0 == Did([Idle EXCEPT !.pc = "run", !.body = body], "checkRateLimit") IN
    IF ~ admitted THEN Admitted(Sent(r0, TooManyRequests))
    ELSE Admitted(r0)

\* the handler from its entry up to the await of generateContent
Entered(body, admitted) ==
    LET r0 == Did([Idle EXCEPT !.pc = "run", !.body = body], "checkRateLimit") IN
    IF ~ admitted THEN Returned(r0, TooManyRequests)
    ELSE Admitted(r0)

\* a handler that starts the write before it answers
Continued_PersistFirst(r0, outcome) ==
    LET r == [r0 EXCEPT !.outcome = outcome] IN
    IF outcome.kind = "throw"
    THEN Caught(r, Err("", outcome.message, "", 0))
    ELSE LET r1 == Did(r, "parse")
             diagnosis == extract(outcome.raw)
         IN
    IF ~ diagnosis.ok THEN Caught(r1, diagnosis.message)
    ELSE IF diagnosis.kind = "null"
    THEN Caught(r1, Err("", "Cannot read properties of null", "", 0))
    ELSE IF variant = "data"
    THEN [Sent(Did(r1, "DemoData.create"), Success(diagnosis)) EXCEPT
             !.pc = "awaitSave"]
    ELSE [Sent(r1, Success(diagnosis)) EXCEPT !.pc = "done"]

\* the handler after the await, up to its end
Continued(r0, outcome) ==
    LET r == [r0 EXCEPT !.outcome = outcome] IN
    IF outcome.kind = "throw"
    THEN Caught(r, Err("", outcome.message, "", 0))
    ELSE LET r1 == Did(r, "parse")
             diagnosis == extract(outcome.raw)
         IN
    IF ~ diagnosis.ok THEN Caught(r1, diagnosis.message)
    ELSE IF diagnosis.kind = "null"
    THEN Caught(r1, Err("", "Cannot read properties of null", "", 0))
    ELSE LET r2 == Sent(r1, Success(diagnosis)) IN
    IF variant = "data"
    THEN [Did(r2, "DemoData.create") EXCEPT !.pc = "awaitSave"]
    ELSE [r2 EXCEPT !.pc = "done"]

\* a failed write reported to the caller with a 500
Saved_Respond500(r, ok) ==
    IF ok THEN [Did(r, "create.then") EXCEPT !.pc = "done"]
    ELSE [Sent(Did(r, "create.catch"), DiagnosisFailed) EXCEPT !.pc = "done"]

\* a failed write tried a second time
Saved_Retry(r, ok) ==
    IF ok \/ \E i \in 1..Len(r.trace) : r.trace[i] = "create.catch"
    THEN [Did(r, IF ok THEN "create.then" ELSE "create.catch") EXCEPT
             !.pc = "done"]
    ELSE Did(Did(r, "create.catch"), "DemoData.create")

\* .then(() => console.log(..)) and .catch(err => console.error(..))
Saved(r, ok) ==
    [Did(r, IF ok THEN "create.then" ELSE "create.catch") EXCEPT
        !.pc = "done",
        !.err = IF ok THEN @ ELSE Err("MongoDB save failed: ", "store unreachable", "", 0)]

----------------------------------------------------------------------------
(* Actions *)

\* a rate check that suspends between its read and its write: the write of
\* a request that arrives while another one is suspended is lost
diagnose_LostUpdate(c, ip, body) ==
    /\ reqs[c].pc \in {"idle", "done"}
    /\ IF variant = "inactive"
       THEN /\ reqs' = [reqs EXCEPT ![c] = NextRequest(c, StubHandler)]
            /\ UNCHANGED <<rateLimitMap, calls>>
       ELSE /\ rateLimitMap' =
                  IF \E d \in Conns : reqs[d].pc = "awaitModel"
                  THEN rateLimitMap ELSE checkRateLimit(ip).map
            /\ calls' = Logged(ip, checkRateLimit(ip).ok)
            /\ reqs' = [reqs EXCEPT ![c] =
                        NextRequest(c, Entered(body, checkRateLimit(ip).ok))]
    /\ UNCHANGED <<config, now>>

\* a handler that charges the quota only for requests it can serve
diagnose_CountValidOnly(c, ip, body) ==
    /\ reqs[c].pc \in {"idle", "done"}
    /\ IF variant = "inactive"
       THEN /\ reqs' = [reqs EXCEPT ![c] = NextRequest(c, StubHandler)]
            /\ UNCHANGED <<rateLimitMap, calls>>
       ELSE /\ rateLimitMap' =
                  IF genAI /\ ~ InputMissing(body)
                  THEN checkRateLimit(ip).map ELSE rateLimitMap
            /\ calls' = Logged(ip, checkRateLimit(ip).ok)
            /\ reqs' = [reqs EXCEPT ![c] =
                        NextRequest(c, Entered(body, checkRateLimit(ip).ok))]
    /\ UNCHANGED <<config, now>>

\* a POST /diagnose arrives on connection c
diagnose(c, ip, body) ==
    /\ reqs[c].pc \in {"idle", "done"}
    /\ IF variant = "inactive"
       THEN /\ reqs' = [reqs EXCEPT ![c] = NextRequest(c, StubHandler)]
            /\ UNCHANGED <<rateLimitMap, calls>>
       ELSE /\ rateLimitMap' = checkRateLimit(ip).map
            /\ calls' = Logged(ip, checkRateLimit(ip).ok)
            /\ reqs' = [reqs EXCEPT ![c] =
                        NextRequest(c, Entered(body, checkRateLimit(ip).ok))]
    /\ UNCHANGED <<config, now>>

\* the promise of model.generateContent settles
generateContentSettled(c, outcome) ==
    /\ reqs[c].pc = "awaitModel"
    /\ reqs' = [reqs EXCEPT ![c] = Continued(reqs[c], outcome)]
    /\ UNCHANGED <<config, now, rateLimitMap, calls>>

\* the promise of DemoData.create settles
createSettled(c, ok) ==
    /\ reqs[c].pc = "awaitSave"
    /\ reqs' = [reqs EXCEPT ![c] = Saved(reqs[c], ok)]
    /\ UNCHANGED <<config, now, rateLimitMap, calls>>

\* the setInterval callback
sweep ==
    /\ variant /= "inactive"
    /\ rateLimitMap' = SweptMap
    /\ UNCHANGED <<config, now, reqs, calls>>

\* time passes
Tick(d) ==
    /\ (now + d) \div RATE_LIMIT_WINDOW <= Horizon
    /\ (now + d) % RATE_LIMIT_WINDOW <= Horizon
    /\ now' = now + d
    /\ UNCHANGED <<config, rateLimitMap, reqs, calls>>

Init ==
    /\ variant \in Variants
    /\ IF variant = "inactive"
       THEN /\ DEMO_ACTIVE \in BOOLEAN
            /\ genAI = FALSE
            /\ RATE_LIMIT_MAX = RateLimitMaxOf(0)
            /\ RATE_LIMIT_WINDOW = RateLimitWindowOf(0)
       ELSE /\ DEMO_ACTIVE = FALSE
            /\ genAI \in {GenAIOf(key) : key \in EnvGeminiKey}
            /\ RATE_LIMIT_MAX \in {RateLimitMaxOf(e) : e \in EnvRateLimitMax}
            /\ RATE_LIMIT_WINDOW \in
                   {RateLimitWindowOf(e) : e \in EnvRateLimitWindowMinutes}
    /\ now = 0
    /\ rateLimitMap = {}
    /\ reqs = [c \in Conns |-> Idle]
    /\ calls = [ip \in Clients |-> <<>>]

Next ==
    \/ \E c \in Conns, ip \in Clients, body \in Bodies :
           TotalCalls < MaxCalls /\ diagnose(c, ip, body)
    \/ \E c \in Conns, outcome \in ModelOutcomes : generateContentSettled(c, outcome)
    \/ \E c \in Conns, ok \in BOOLEAN : createSettled(c, ok)
    \/ sweep
    \/ Tick(RATE_LIMIT_WINDOW + 1)

\* The whole service, on a coarse clock: every tick outlasts a window
Spec == Init /\ [][Next]_vars

\* The rate limiter alone, on a fine clock (one millisecond, or exactly a
\* window length): longer runs of requests that carry no input, so that
\* every request ends inside the handler's first stretch
InitLimiter == Init /\ variant /= "inactive"

NextLimiter ==
    \/ \E c \in Conns, ip \in Clients :
           TotalCalls < MaxLimiterCalls /\ diagnose(c, ip, NoInput)
    \/ sweep
    \/ \E d \in {1, RATE_LIMIT_WINDOW} : Tick(d)

SpecLimiter == InitLimiter /\ [][NextLimiter]_vars

\* The limiter with its timer: the interval timer keeps firing and time
\* keeps passing for as long as the process lives
NextSweep ==
    \/ \E c \in Conns, ip \in Clients :
           TotalCalls < MaxCalls /\ diagnose(c, ip, NoInput)
    \/ sweep
    \/ \E d \in {1, RATE_LIMIT_WINDOW} : Tick(d)

SpecSweep ==
    /\ InitLimiter
    /\ [][NextSweep]_vars
    /\ WF_vars(sweep)
    /\ WF_vars(\E d \in {1, RATE_LIMIT_WINDOW} : Tick(d))

\* The prompt alone: a configured data service gets one request with any
\* choice of the optional measurements (a prompt depends on nothing but the
\* body of its request), and the model call fails
InitPrompt ==
    /\ Init
    /\ variant = "data"
    /\ genAI
    /\ RATE_LIMIT_MAX = RateLimitMaxOf(0)

NextPrompt ==
    \/ /\ TotalCalls = 0
       /\ \E body \in MeasuredBodies : diagnose("conn1", "1.2.3.4", body)
    \/ generateContentSettled("conn1",
           [kind |-> "throw", message |-> "fetch failed", raw |-> <<>>])

SpecPrompt == InitPrompt /\ [][NextPrompt]_vars

\* The extraction alone: one connection of a configured service carries
\* requests with valid input, and the model answers with any text of at
\* most MaxReplyLen tokens
InitExtract ==
    /\ Init
    /\ variant /= "inactive"
    /\ genAI
    /\ RATE_LIMIT_MAX = RateLimitMaxOf(0)

NextExtract ==
    \/ \E body \in Bodies :
           /\ TotalCalls < MaxCalls
           /\ ~ InputMissing(body) /\ ~ PromptThrows(body)
           /\ diagnose("conn1", "1.2.3.4", body)
    \/ /\ reqs["conn1"].pc = "awaitModel"
       /\ \E raw \in RepliesUpTo(MaxReplyLen) :
              generateContentSettled("conn1",
                  [kind |-> "text", message |-> "", raw |-> raw])
    \/ \E ok \in BOOLEAN : createSettled("conn1", ok)

SpecExtract == InitExtract /\ [][NextExtract]_vars

----------------------------------------------------------------------------
(* Reading the history of checkRateLimit calls *)

\* start of the window the i-th call of the log L falls in: the first call
\* opens a window, and so does every call made more than a window length
\* after the start of the window before it
RECURSIVE WindowOf(_, _)
WindowOf(L, i) ==
    IF i = 1 THEN L[1].at
    ELSE LET w == WindowOf(L, i - 1) IN
         IF L[i].at - w > RATE_LIMIT_WINDOW THEN L[i].at ELSE w

\* the i-th call is the k-th call of its window
RankInWindow(L, i) ==
    Cardinality({j \in 1..i : WindowOf(L, j) = WindowOf(L, i)})

\* admitted calls of L made at a time t with from <= t < to
AdmittedIn(L, from, to) ==
    Cardinality({j \in 1..Len(L) : L[j].ok /\ from <= L[j].at /\ L[j].at < to})

\* admitted calls of L in the window that starts at w
AdmittedInWindow(L, w) ==
    Cardinality({j \in 1..Len(L) : L[j].ok /\ WindowOf(L, j) = w})

\* this step is a call of checkRateLimit for ip
Called(ip) == Len(calls'[ip]) = Len(calls[ip]) + 1

\* the call this step made for ip
LastCall(ip) == calls'[ip][Len(calls'[ip])]

\* this step is the handler's first stretch, run on connection c
Arrived(c) ==
    /\ \E ip \in Clients : Called(ip)
    /\ reqs'[c].nth /= reqs[c].nth

\* the request of this step was admitted by the rate limiter
AdmittedNow == \E ip \in Clients : Called(ip) /\ LastCall(ip).ok

Ran(r, what) == \E i \in 1..Len(r.trace) : r.trace[i] = what

----------------------------------------------------------------------------
(* Claims *)

\* C1: for every client and every configured maxPerWindow, the k-th call of
\* checkRateLimit within one window is admitted when k <= maxPerWindow and
\* rejected when k = maxPerWindow + 1.
C1_AdmitUpToMax ==
    \A ip \in Clients : \A i \in 1..Len(calls[ip]) :
        LET k == RankInWindow(calls[ip], i) IN
        /\ k <= RATE_LIMIT_MAX => calls[ip][i].ok
        /\ k = RATE_LIMIT_MAX + 1 => ~ calls[ip][i].ok

\* a client made maxPerWindow + 1 calls in one window, with maxPerWindow = 2
C1_Witness ==
    \E ip \in Clients : \E i \in 1..Len(calls[ip]) :
        /\ RATE_LIMIT_MAX = 2
        /\ RankInWindow(calls[ip], i) = 3
        /\ ~ calls[ip][i].ok
        /\ calls[ip][i - 1].ok

\* C2: a call made more than windowDuration after the call that opened the
\* client's window is admitted whatever the count was, and leaves the
\* client's record at count 1 with windowStart = now.
C2_ResetAfterWindow ==
    [][\A ip \in Clients :
          (/\ Called(ip)
           /\ calls[ip] /= <<>>
           /\ now - WindowOf(calls[ip], Len(calls[ip])) > RATE_LIMIT_WINDOW)
          => /\ LastCall(ip).ok
             /\ {e \in rateLimitMap' : e.ip = ip} =
                    {[ip |-> ip, windowStart |-> now, count |-> 1]}]_vars

\* a client was rejected in one window and admitted by the call that opened
\* the next one
C2_Witness ==
    \E ip \in Clients : \E i \in 2..Len(calls[ip]) :
        /\ ~ calls[ip][i - 1].ok
        /\ calls[ip][i].ok
        /\ calls[ip][i].at - WindowOf(calls[ip], i - 1) > RATE_LIMIT_WINDOW
        /\ MapGet(rateLimitMap, ip).count = 1

\* C3 as claimed: in every time span of length windowDuration, wherever it
\* starts, at most maxPerWindow requests of a client are admitted.
C3_SlidingWindow ==
    \A ip \in Clients : \A i \in 1..Len(calls[ip]) :
        AdmittedIn(calls[ip], calls[ip][i].at,
                   calls[ip][i].at + RATE_LIMIT_WINDOW) <= RATE_LIMIT_MAX

\* C3 amended: the window is fixed, anchored at the call that opened it: at
\* most maxPerWindow requests of a client are admitted in each window, and a
\* span of length windowDuration holds at most 2 * maxPerWindow - 1 of them.
C3_FixedWindow ==
    \A ip \in Clients : \A i \in 1..Len(calls[ip]) :
        /\ AdmittedInWindow(calls[ip], WindowOf(calls[ip], i)) <= RATE_LIMIT_MAX
        /\ AdmittedIn(calls[ip], calls[ip][i].at,
                      calls[ip][i].at + RATE_LIMIT_WINDOW)
               <= 2 * RATE_LIMIT_MAX - 1

\* a span shorter than a window that straddles a rollover holds more than
\* maxPerWindow admitted requests, none of the two windows holding more
C3_Witness ==
    \E ip \in Clients : \E i \in 1..Len(calls[ip]) :
        /\ AdmittedIn(calls[ip], calls[ip][i].at,
                      calls[ip][i].at + RATE_LIMIT_WINDOW) > RATE_LIMIT_MAX
        /\ AdmittedInWindow(calls[ip], WindowOf(calls[ip], Len(calls[ip])))
               = RATE_LIMIT_MAX

\* C4: the map holds at most one record per client; while a record keeps its
\* windowStart its count never decreases; a record that is new or has a new
\* windowStart has count 1.
C4_OneRecordMonotoneCount ==
    [][\A ip \in Clients :
          /\ Cardinality({e \in rateLimitMap' : e.ip = ip}) <= 1
          /\ \A new \in {e \in rateLimitMap' : e.ip = ip} :
                IF \E old \in rateLimitMap :
                       old.ip = ip /\ old.windowStart = new.windowStart
                THEN \A old \in rateLimitMap :
                       old.ip = ip => new.count >= old.count
                ELSE new.count = 1]_vars

\* a record that had reached count 2 was replaced at a rollover
C4_Witness ==
    \E e \in rateLimitMap :
        /\ e.count = 1
        /\ Len(calls[e.ip]) >= 3
        /\ calls[e.ip][2].ok
        /\ WindowOf(calls[e.ip], 2) = WindowOf(calls[e.ip], 1)
        /\ e.windowStart > WindowOf(calls[e.ip], 1)

\* C5: every POST /diagnose request, in every variant and for every outcome,
\* gets exactly one response: never two, and one once the handler is done.
C5_ExactlyOneResponse ==
    \A c \in Conns :
        /\ Len(reqs[c].res) <= 1
        /\ reqs[c].pc = "done" => Len(reqs[c].res) = 1

\* C6: a request that checkRateLimit rejects is answered 429 and nothing
\* else is done for it: no service check, no input check, no model call, no
\* write.
C6_RejectedOnly429 ==
    [][\A c \in Conns :
          (Arrived(c) /\ ~ AdmittedNow)
          => /\ reqs'[c].pc = "done"
             /\ reqs'[c].res = <<TooManyRequests>>
             /\ reqs'[c].trace = <<"checkRateLimit", "res.json">>]_vars

\* a request was rejected and answered 429
C6_Witness ==
    /\ \E ip \in Clients : \E i \in 1..Len(calls[ip]) : ~ calls[ip][i].ok
    /\ \E c \in Conns : reqs[c].pc = "done" /\ reqs[c].res = <<TooManyRequests>>

\* C7: genAI never changes after startup, and while it is unset every
\* admitted request is answered 503 without a model call or a write.
C7_Unconfigured503 ==
    [][/\ genAI' = genAI
       /\ \A c \in Conns :
             (Arrived(c) /\ AdmittedNow /\ ~ genAI)
             => /\ reqs'[c].pc = "done"
                /\ reqs'[c].res = <<NotConfigured>>
                /\ ~ Ran(reqs'[c], "generateContent")
                /\ ~ Ran(reqs'[c], "DemoData.create")]_vars

\* on an unconfigured service a second admitted request was answered 503
\* after a first one had been
C7_Witness ==
    /\ ~ genAI
    /\ variant /= "inactive"
    /\ \A c \in Conns : reqs[c].pc = "done" /\ reqs[c].res = <<NotConfigured>>

\* what the claim calls missing input: no image (image variant); no
\* faceAnalysis, or one whose error property is set (data variant)
C8_Missing(body) ==
    IF variant = "image" THEN ~ body.image
    ELSE ~ body.faceAnalysis.present \/ body.faceAnalysis.error = "truthy"

\* C8: an admitted request on a configured service whose required input is
\* missing is answered 400 and the model is not invoked for it.
C8_MissingInput400 ==
    [][\A c \in Conns :
          (Arrived(c) /\ AdmittedNow /\ genAI /\ C8_Missing(reqs'[c].body))
          => /\ reqs'[c].pc = "done"
             /\ Len(reqs'[c].res) = 1
             /\ reqs'[c].res[1].status = 400
             /\ ~ Ran(reqs'[c], "generateContent")]_vars

\* in the data variant a request carrying an error marker was answered 400
C8_Witness ==
    \E c \in Conns :
        /\ variant = "data" /\ genAI
        /\ reqs[c].body.faceAnalysis.present
        /\ reqs[c].body.faceAnalysis.error = "truthy"
        /\ reqs[c].pc = "done"
        /\ reqs[c].res[1].status = 400

\* C9: when the model call throws, or the reply cannot be recovered as JSON,
\* the one response is 500 with the fixed message, whatever the error was.
C9_GenericFailure ==
    \A c \in Conns :
        (/\ reqs[c].outcome /= NoOutcome
         /\ \/ reqs[c].outcome.kind = "throw"
            \/ ~ extract(reqs[c].outcome.raw).ok)
        => /\ reqs[c].res =
                 <<[status |-> 500, success |-> FALSE,
                    message |-> "AI diagnosis failed. Please try again.",
                    diagnosis |-> NoDiagnosis]>>
           /\ reqs[c].pc = "done"

\* a thrown model call and an unrecoverable reply, logged differently,
\* answered alike
C9_Witness ==
    \E c, d \in Conns :
        /\ reqs[c].outcome.kind = "throw"
        /\ reqs[d].outcome.kind = "text"
        /\ ~ extract(reqs[d].outcome.raw).ok
        /\ reqs[c].err /= reqs[d].err
        /\ reqs[c].res = reqs[d].res
        /\ Len(reqs[c].res) = 1

\* C10: DemoData.create starts only after the 200 response of its request
\* was sent, and its outcome leaves the responses of the request as they are.
C10_PersistAfterResponse ==
    [][\A c \in Conns :
          /\ \A i \in 1..Len(reqs'[c].trace) :
                reqs'[c].trace[i] = "DemoData.create"
                => /\ i > 1
                   /\ reqs'[c].trace[i - 1] = "res.json"
                   /\ Len(reqs'[c].res) = 1
                   /\ reqs'[c].res[1].status = 200
          /\ reqs[c].pc = "awaitSave"
                => /\ reqs'[c].res = reqs[c].res
                   /\ reqs'[c].pc \in {"awaitSave", "done"}]_vars

\* a write failed after its request had been answered 200
C10_Witness ==
    \E c \in Conns :
        /\ reqs[c].pc = "done"
        /\ Ran(reqs[c], "create.catch")
        /\ Len(reqs[c].res) = 1
        /\ reqs[c].res[1].status = 200

----------------------------------------------------------------------------
(* The extraction chain as the claims describe it *)

Least(S) == CHOOSE x \in S : \A y \in S : x <= y
Greatest(S) == CHOOSE x \in S : \A y \in S : x >= y

\* the fenced blocks of a text: an opening fence (followed by the word json
\* when tagged) and a closing fence after it
Blocks(s, tagged) ==
    {p \in (1..Len(s)) \X (1..Len(s)) :
        /\ s[p[1]] = Fence
        /\ s[p[2]] = Fence
        /\ IF tagged THEN p[1] + 1 < p[2] /\ s[p[1] + 1] = "json"
           ELSE p[1] < p[2]}

\* the leftmost block, closed by the nearest fence
FirstBlock(s, tagged) ==
    CHOOSE p \in Blocks(s, tagged) :
        \A q \in Blocks(s, tagged) :
            p[1] < q[1] \/ (p[1] = q[1] /\ p[2] <= q[2])

\* a text without the white space around it
Stripped(s) ==
    LET inked == {i \in 1..Len(s) : s[i] /= "ws"} IN
    IF inked = {} THEN <<>> ELSE SubSeq(s, Least(inked), Greatest(inked))

\* what lies between the fences of the first block
Interior(s, tagged) ==
    LET p == FirstBlock(s, tagged) IN
    Stripped(SubSeq(s, p[1] + (IF tagged THEN 2 ELSE 1), p[2] - 1))

Opens(s) == {i \in 1..Len(s) : s[i] = "{"}
Closes(s) == {i \in 1..Len(s) : s[i] = "}"}
HasBraces(s) ==
    Opens(s) /= {} /\ Closes(s) /= {} /\ Least(Opens(s)) < Greatest(Closes(s))

\* some strategy after the direct parse has its pattern in the text
HasCandidate(s) ==
    Blocks(s, TRUE) /= {} \/ Blocks(s, FALSE) /= {} \/ HasBraces(s)

\* the text the first applicable strategy hands to the parser
Candidate(s) ==
    IF Blocks(s, TRUE) /= {} THEN Interior(s, TRUE)
    ELSE IF Blocks(s, FALSE) /= {} THEN Interior(s, FALSE)
    ELSE SubSeq(s, Least(Opens(s)), Greatest(Closes(s)))

\* the requests whose model call ended with a text
Replied == {c \in Conns : reqs[c].outcome.kind = "text"}

\* C11: the extraction is an ordered chain, first success wins: a reply that
\* parses yields exactly its parse; otherwise the interior of the first
\* json-fenced block is parsed, otherwise that of the first fenced block,
\* otherwise the span from the first "{" to the last "}", and a strategy is
\* only tried when the pattern of every earlier one is absent.
C11_OrderedChain ==
    \A c \in Replied :
        LET raw == reqs[c].outcome.raw
            e == extract(raw)
        IN  IF JSONParse(raw).ok THEN e = JSONParse(raw)
            ELSE IF HasCandidate(raw)
            THEN /\ e.ok = JSONParse(Candidate(raw)).ok
                 /\ e.ok => e = JSONParse(Candidate(raw))
            ELSE ~ e.ok

\* a reply was answered 200 out of its json-fenced block, the text between
\* its first two fences being no JSON
C11_Witness ==
    \E c \in Replied :
        LET raw == reqs[c].outcome.raw IN
        /\ ~ JSONParse(raw).ok
        /\ Blocks(raw, TRUE) /= {}
        /\ JSONParse(Interior(raw, TRUE)).ok
        /\ ~ JSONParse(Interior(raw, FALSE)).ok
        /\ reqs[c].res /= <<>>
        /\ reqs[c].res[1].status = 200

\* the message of the error thrown when the direct parse of raw failed and
\* nothing was recovered
OriginalParseError(raw) ==
    LET m == JSONParse(raw).message IN
    Err("JSON parse failed: ", m.text, m.tok, m.pos)

\* C12: when no pattern matches, or the one matched candidate does not
\* parse, the extraction fails with an error that carries the message of the
\* original direct parse, not of the candidate's parse, and nothing further
\* is tried: the request ends with that error caught.
C12_OriginalParseError ==
    \A c \in Replied :
        LET raw == reqs[c].outcome.raw IN
        (/\ ~ JSONParse(raw).ok
         /\ HasCandidate(raw) => ~ JSONParse(Candidate(raw)).ok)
        => /\ ~ extract(raw).ok
           /\ extract(raw).message = OriginalParseError(raw)
           /\ reqs[c].err = OriginalParseError(raw)
           /\ reqs[c].pc = "done"
           /\ reqs[c].res = <<DiagnosisFailed>>

\* a candidate was matched and failed to parse with an error other than that
\* of the direct parse, and the request ended with the latter
C12_Witness ==
    \E c \in Replied :
        LET raw == reqs[c].outcome.raw IN
        /\ ~ JSONParse(raw).ok
        /\ HasCandidate(raw)
        /\ ~ JSONParse(Candidate(raw)).ok
        /\ JSONParse(Candidate(raw)).message /= JSONParse(raw).message
        /\ reqs[c].err = OriginalParseError(raw)
        /\ reqs[c].pc = "done"

\* C13: a reply whose recovered JSON value is not an object never leads to a
\* 200 response. (The handler answers 200 to the reply 1: reading a property
\* of a number yields undefined and throws nothing.)
C13_ObjectOrFail ==
    \A c \in Replied :
        LET e == extract(reqs[c].outcome.raw) IN
        (e.ok /\ e.kind /= "object")
        => \A i \in 1..Len(reqs[c].res) : reqs[c].res[i].status /= 200

\* the stages of a request up to its response, in the order of the claims
StagesBeforeResponse ==
    <<"checkRateLimit", "genAI", "validate", "prompt", "generateContent",
      "parse">>

\* the statements of trace t before its first response or caught error
BeforeResponse(t) ==
    LET ends == {i \in 1..Len(t) : t[i] \in {"res.json", "catch"}} IN
    IF ends = {} THEN t ELSE SubSeq(t, 1, Least(ends) - 1)

\* what follows them
FromResponse(t) == SubSeq(t, Len(BeforeResponse(t)) + 1, Len(t))

\* C14: within one request the stages run in the order rate check, service
\* check, input validation, prompt build, model invocation, extraction,
\* response, persistence attempt: none is skipped or starts before the one
\* before it has finished, and nothing runs after a rejecting response.
C14_StagesInOrder ==
    \A c \in Conns :
        LET t == reqs[c].trace
            n == Len(BeforeResponse(t))
        IN  /\ n <= Len(StagesBeforeResponse)
            /\ BeforeResponse(t) = SubSeq(StagesBeforeResponse, 1, n)
            /\ FromResponse(t) \in
                  { <<>>, <<"res.json">>, <<"catch", "res.json">>,
                    <<"res.json", "DemoData.create">>,
                    <<"res.json", "DemoData.create", "create.then">>,
                    <<"res.json", "DemoData.create", "create.catch">> }
            /\ Ran(reqs[c], "DemoData.create")
                  => /\ n = Len(StagesBeforeResponse)
                     /\ reqs[c].res[1].status = 200
            /\ (reqs[c].res /= <<>> /\ reqs[c].res[1].status = 200)
                  => n = Len(StagesBeforeResponse)
            /\ reqs[c].pc = "awaitModel"
                  => /\ t = SubSeq(StagesBeforeResponse, 1, 5)
                     /\ reqs[c].res = <<>>
            /\ reqs[c].pc = "awaitSave" => t[Len(t)] = "DemoData.create"

\* a request went through every stage, and another was stopped at the
\* input validation
C14_Witness ==
    \E c, d \in Conns :
        /\ reqs[c].trace = StagesBeforeResponse \o
               <<"res.json", "DemoData.create", "create.then">>
        /\ reqs[d].trace = <<"checkRateLimit", "genAI", "validate", "res.json">>
        /\ reqs[d].res = <<InputRequired>>

\* C15: requests and the sweep interleave freely with requests suspended in
\* their model call, and whatever the interleaving no client is admitted
\* more than maxPerWindow times in one window and every record counts
\* exactly the admitted calls of its window: no increment lost or doubled.
C15_NoLostUpdate ==
    /\ \A ip \in Clients : \A i \in 1..Len(calls[ip]) :
          AdmittedInWindow(calls[ip], WindowOf(calls[ip], i)) <= RATE_LIMIT_MAX
    /\ \A e \in rateLimitMap :
          /\ calls[e.ip] /= <<>>
          /\ e.windowStart = WindowOf(calls[e.ip], Len(calls[e.ip]))
          /\ e.count = AdmittedInWindow(calls[e.ip], e.windowStart)
          /\ \A f \in rateLimitMap : f.ip = e.ip => f = e

\* a client's second request was checked while its first was suspended in
\* the model call, and the record counts both
C15_Witness ==
    \E e \in rateLimitMap :
        /\ e.count = 2
        /\ Len(calls[e.ip]) = 2
        /\ \A c \in Conns : reqs[c].pc = "awaitModel"

\* how often the request r ran the statement what
Times(r, what) == Cardinality({i \in 1..Len(r.trace) : r.trace[i] = what})

Answered200(r) == r.res /= <<>> /\ r.res[1].status = 200

\* C16: there is no retry: the model is invoked at most once for a request,
\* and a write is attempted exactly once for each request answered 200 and
\* never for a request answered 429, 503, 400 or 500.
C16_NoRetry ==
    \A c \in Conns :
        /\ Times(reqs[c], "generateContent") <= 1
        /\ Times(reqs[c], "DemoData.create") =
              IF Answered200(reqs[c]) THEN 1 ELSE 0

\* C16 as the code has it: the write is that of the data variant; the image
\* variant answers 200 and writes nothing.
C16_NoRetryWhereStored ==
    \A c \in Conns :
        /\ Times(reqs[c], "generateContent") <= 1
        /\ Times(reqs[c], "DemoData.create") =
              IF variant = "data" /\ Answered200(reqs[c]) THEN 1 ELSE 0
        /\ Times(reqs[c], "create.then") + Times(reqs[c], "create.catch") <= 1

\* a request answered 200 whose one write failed, beside a request answered
\* 500 after its one model call threw
C16_Witness ==
    \E c, d \in Conns :
        /\ Answered200(reqs[c])
        /\ reqs[c].pc = "done"
        /\ Times(reqs[c], "DemoData.create") = 1
        /\ Ran(reqs[c], "create.catch")
        /\ reqs[d].outcome.kind = "throw"
        /\ reqs[d].res = <<DiagnosisFailed>>
        /\ Times(reqs[d], "generateContent") = 1

\* C17: a rejecting call of checkRateLimit leaves the whole map as it was:
\* the record of the rejected client and the record of every other client.
C17_RejectLeavesMap ==
    [][\A ip \in Clients :
          (Called(ip) /\ ~ LastCall(ip).ok) => rateLimitMap' = rateLimitMap]_vars

\* a client was rejected while another client had a record, and the
\* rejected client's record still counts maxPerWindow calls
C17_Witness ==
    \E e, f \in rateLimitMap :
        /\ e.ip /= f.ip
        /\ e.count = RATE_LIMIT_MAX
        /\ \E i \in 1..Len(calls[e.ip]) :
              /\ ~ calls[e.ip][i].ok
              /\ WindowOf(calls[e.ip], i) = e.windowStart

\* the record e has expired
Expired(e) == now - e.windowStart > RATE_LIMIT_WINDOW

\* the clock of the model can run until the record e has expired
Outlived(e) ==
    Horizon * RATE_LIMIT_WINDOW + Horizon - e.windowStart > RATE_LIMIT_WINDOW

\* C18: a run of the sweep deletes every expired record and no live one, so
\* that no expired record is left right after it; and the record of a client
\* that has stopped sending requests is deleted by some later sweep.
C18_SweepDeletesExpired ==
    /\ [][(calls' = calls /\ rateLimitMap' /= rateLimitMap)
          => /\ rateLimitMap' = {e \in rateLimitMap : ~ Expired(e)}
             /\ \A e \in rateLimitMap' : ~ Expired(e)']_vars
    /\ <>[](\A e \in rateLimitMap : ~ Outlived(e))

\* the clients have stopped; the sweep has deleted the expired record of one
\* and kept the live record of the other
C18_Witness ==
    \E ip \in Clients : \E f \in rateLimitMap :
        /\ calls[ip] /= <<>>
        /\ ~ MapHas(rateLimitMap, ip)
        /\ f.ip /= ip
        /\ ~ Expired(f)
        /\ now > RATE_LIMIT_WINDOW

\* the lines of the prompt p about the field named label
LinesOf(p, label) == {i \in 1..Len(p) : p[i].label = label}

\* the requests whose prompt was built
Built == {c \in Conns : Ran(reqs[c], "generateContent")}

\* C19: in the data-based prompt a measurement field absent from the input
\* (eye, eyebrow, lip or neck colour, the contrast block or any of its
\* entries, body proportions) produces no line at all, never a line with an
\* undefined placeholder, and the instruction to set bodyType and
\* bodyTypeDetail to null is appended exactly when body proportions are
\* absent. (With a contrast block that lacks skinHair the code prints the
\* line "Skin <-> Hair: undefined".)
C19_AbsentFieldsOmitted ==
    \A c \in Built :
        LET b == reqs[c].body
            f == b.faceAnalysis
            p == reqs[c].prompt
        IN  variant = "data" =>
            /\ \A k \in {"eyeColor", "eyebrowColor", "lipColor", "neckColor"} :
                  ~ f[k] => LinesOf(p, k) = {}
            /\ ~ f.contrast.present => LinesOf(p, "Contrast") = {}
            /\ \A k \in {"skinHair", "skinEye", "skinLip", "skinNeck"} :
                  ~ f.contrast[k] => LinesOf(p, k) = {}
            /\ b.bodyAnalysis \in {"absent", "noProportions"}
                  => LinesOf(p, "Body Proportions") = {}
            /\ b.bodyAnalysis \in {"absent", "noProportions"}
                  <=> LinesOf(p, "Set bodyType and bodyTypeDetail to null") /= {}

\* the requests answered 200, and what the model's object held for them
Shown == {c \in Replied : Answered200(reqs[c])}
ModelObject(c) == extract(reqs[c].outcome.raw)

\* C20: the diagnosis of a 200 response holds the allow-listed fields only:
\* each one present in the model's object with its value unchanged, each one
\* missing from it undefined, and no field from outside the allow-list.
C20_AllowListVerbatim ==
    \A c \in Shown :
        /\ DOMAIN reqs[c].res[1].diagnosis = AllowList
        /\ \A k \in AllowList :
              reqs[c].res[1].diagnosis[k] = Prop(ModelObject(c), k)

\* C20 as the code has it: bodyType and bodyTypeDetail, which only the data
\* variant lists, are sent as null when the model's object lacks them or
\* holds a falsy value for them; every other field is as the claim says.
C20_AllowListNullBody ==
    \A c \in Shown :
        /\ DOMAIN reqs[c].res[1].diagnosis = AllowList
        /\ \A k \in AllowList :
              reqs[c].res[1].diagnosis[k] =
                 IF /\ k \in {"bodyType", "bodyTypeDetail"}
                    /\ Prop(ModelObject(c), k) \in Falsy
                 THEN "null" ELSE Prop(ModelObject(c), k)

\* a 200 response of the data variant that copied personalColor and
\* bodyType, left faceShape undefined, sent bodyTypeDetail as null and
\* dropped the model's extra field
C20_Witness ==
    \E c \in Shown :
        LET d == reqs[c].res[1].diagnosis IN
        /\ variant = "data"
        /\ Prop(ModelObject(c), "extra") /= "undefined"
        /\ "extra" \notin DOMAIN d
        /\ d["personalColor"] = "Spring Light"
        /\ d["bodyType"] = "Wave"
        /\ d["faceShape"] = "undefined"
        /\ d["bodyTypeDetail"] = "null"

\* the count the record of ip stands at, none and expired records being 0
LiveCount(ip) ==
    LET record == MapGet(rateLimitMap, ip) IN
    IF record = NoRecord \/ now - record.windowStart > RATE_LIMIT_WINDOW
    THEN 0 ELSE record.count

\* C21: every request that is not answered 429 takes one unit of its
\* client's quota whatever becomes of it: the count goes up by one when the
\* request arrives, for requests then answered 503, 400 or 500 as for
\* successful ones, nothing gives the unit back, and so maxPerWindow failing
\* requests in a window have the client's next request answered 429.
C21_FailuresConsumeQuota ==
    [][/\ \A c \in Conns : \A ip \in Clients :
             (Arrived(c) /\ Called(ip))
             => IF reqs'[c].res = <<TooManyRequests>>
                THEN LiveCount(ip) >= RATE_LIMIT_MAX
                ELSE /\ MapGet(rateLimitMap', ip).count = LiveCount(ip) + 1
                     /\ LiveCount(ip) < RATE_LIMIT_MAX
       /\ (calls' = calls /\ reqs' /= reqs) => rateLimitMap' = rateLimitMap]_vars

\* maxPerWindow = 1: a client's request failed with 500 after its model call,
\* and the client's next request in that window was answered 429
C21_Witness ==
    \E ip \in Clients : \E c, d \in Conns :
        /\ RATE_LIMIT_MAX = 1
        /\ Len(calls[ip]) = 2
        /\ calls[ip][1].ok /\ ~ calls[ip][2].ok
        /\ calls[ip][1].at = calls[ip][2].at
        /\ reqs[c].res = <<DiagnosisFailed>>
        /\ reqs[d].res = <<TooManyRequests>>

\* the map as it would stand had no sweep ever run: for each client that
\* has called, the window of its last call and the calls admitted in it
UnsweptMap ==
    { [ip |-> ip,
       windowStart |-> WindowOf(calls[ip], Len(calls[ip])),
       count |-> AdmittedInWindow(calls[ip],
                                  WindowOf(calls[ip], Len(calls[ip])))] :
      ip \in {a \in Clients : calls[a] /= <<>>} }

\* C22: the sweep is invisible to admission: the admit/reject result of
\* every call is a function of the times of the client's calls alone,
\* because the map differs from the map of a run without sweeps only by
\* records that have expired, which the next check would replace.
C22_SweepInvisible ==
    /\ rateLimitMap \subseteq UnsweptMap
    /\ \A e \in UnsweptMap \ rateLimitMap : Expired(e)
    /\ \A ip \in Clients : \A i \in 1..Len(calls[ip]) :
          calls[ip][i].ok <=> RankInWindow(calls[ip], i) <= RATE_LIMIT_MAX

\* the sweep has taken the record of one client away and left that of
\* another client, who has been rejected
C22_Witness ==
    \E ip, other \in Clients :
        /\ ~ MapHas(rateLimitMap, ip)
        /\ Len(calls[ip]) >= 1
        /\ MapHas(rateLimitMap, other)
        /\ \E i \in 1..Len(calls[other]) : ~ calls[other][i].ok

\* C23: rejected requests never extend or restart a window: a rejection
\* leaves windowStart where it was, and a client that was being rejected is
\* admitted by its first request made more than windowDuration after the
\* start of the window it was rejected in.
C23_RejectionsDoNotExtend ==
    [][\A ip \in Clients :
          Called(ip) =>
          LET L == calls[ip]
              record == MapGet(rateLimitMap, ip)
          IN  /\ ~ LastCall(ip).ok
                    => /\ MapHas(rateLimitMap', ip)
                       /\ MapGet(rateLimitMap', ip).windowStart
                             = record.windowStart
              /\ (/\ L /= <<>>
                  /\ ~ L[Len(L)].ok
                  /\ now - WindowOf(L, Len(L)) > RATE_LIMIT_WINDOW)
                    => /\ LastCall(ip).ok
                       /\ MapGet(rateLimitMap', ip).windowStart = now
                       /\ MapGet(rateLimitMap', ip).count = 1]_vars

\* a client was rejected late in its window and admitted by a request made
\* less than a window length after that rejection
C23_Witness ==
    \E ip \in Clients : \E i \in 1..(Len(calls[ip]) - 1) :
        LET L == calls[ip] IN
        /\ ~ L[i].ok
        /\ L[i].at > WindowOf(L, i)
        /\ L[i + 1].ok
        /\ L[i + 1].at - WindowOf(L, i) > RATE_LIMIT_WINDOW
        /\ L[i + 1].at - L[i].at <= RATE_LIMIT_WINDOW

\* the records of the map m that belong to other clients than ip
OthersOf(m, ip) == {e \in m : e.ip /= ip}

\* C24: clients are isolated: a call of checkRateLimit for a client leaves
\* the record of every other client as it was, and its result is a function
\* of the times of that client's own calls, whatever the other clients did.
C24_ClientsIsolated ==
    [][\A ip \in Clients :
          Called(ip) =>
          /\ OthersOf(rateLimitMap', ip) = OthersOf(rateLimitMap, ip)
          /\ calls'[ip][Len(calls'[ip])].ok
                <=> RankInWindow(calls'[ip], Len(calls'[ip])) <= RATE_LIMIT_MAX
          /\ \A other \in Clients \ {ip} : calls'[other] = calls[other]]_vars

\* at one instant a client that had used up its quota was rejected and
\* another client was admitted
C24_Witness ==
    \E ip, other \in Clients :
        /\ ip /= other
        /\ \E i \in 1..Len(calls[ip]) : \E j \in 1..Len(calls[other]) :
              /\ ~ calls[ip][i].ok
              /\ calls[other][j].ok
              /\ calls[other][j].at = calls[ip][i].at
              /\ AdmittedInWindow(calls[ip], WindowOf(calls[ip], i))
                    = RATE_LIMIT_MAX

\* the requests of the data variant that got past the validation with a
\* faceAnalysis that lacks one of the required measurements
Unmeasured ==
    {c \in Conns :
        /\ variant = "data"
        /\ Ran(reqs[c], "validate")
        /\ reqs[c].body.faceAnalysis.present
        /\ reqs[c].body.faceAnalysis.error /= "truthy"
        /\ reqs[c].body.faceAnalysis.measured /= Required}

\* C25: in data mode a faceAnalysis that is present and carries no error
\* marker but lacks skinColor, hairColor, backgroundColor or faceProportions
\* makes the prompt build throw: the request is answered 500 with the
\* generic message, not 400, the model is not invoked and nothing is
\* written.
C25_UnmeasuredIs500 ==
    \A c \in Unmeasured :
        genAI =>
        /\ reqs[c].pc = "done"
        /\ reqs[c].res = <<DiagnosisFailed>>
        /\ Ran(reqs[c], "prompt") /\ Ran(reqs[c], "catch")
        /\ ~ Ran(reqs[c], "generateContent")
        /\ ~ Ran(reqs[c], "DemoData.create")
        /\ reqs[c].prompt = <<>>

\* a request whose faceAnalysis lacked nothing but faceProportions was
\* answered 500
C25_Witness ==
    \E c \in Unmeasured :
        /\ genAI
        /\ reqs[c].body.faceAnalysis.measured = Required \ {"faceProportions"}
        /\ reqs[c].res = <<DiagnosisFailed>>

====
